---- MODULE Spec2Model ----
(***************************************************************************)
(* A model of stubmaker's pystub.py: the generator of a stub python        *)
(* program.  One run of pystub(args, csv, fileinput, json, postgresql,     *)
(* yaml, logging, server, output) is a state machine whose steps are the   *)
(* consecutive parts of the function body.  Strings of the program         *)
(* (descriptor tokens, argument names, type tags, paths) are sequences of  *)
(* characters, so that suffix stripping, splitting on '.' and upper-casing *)
(* are computed as the code computes them; an ASCII character is the       *)
(* string holding it, any other character the string "U+XXXX" of its code  *)
(* point.  The text written                                                *)
(* to the three output files is kept block by block, each block as the     *)
(* values that the code substitutes into its template.                     *)
(***************************************************************************)
EXTENDS Naturals, Sequences, FiniteSets

\* Longest descriptor list handed to pystub.
MaxArgs == 2

Range(s) == {s[i] : i \in 1..Len(s)}

(***************************************************************************)
(* Python values                                                           *)
(***************************************************************************)

\* Python's None where a string may stand (arg_type of an untyped token).
None == <<"None">>

\* Python truthiness of an optional string: None and '' are false.
Truthy(s) == s # None /\ s # <<>>

\* str.endswith with a one-character suffix.
endswith(s, c) == Len(s) > 0 /\ s[Len(s)] = c

\* str.removesuffix with a one-character suffix.
removesuffix(s, c) == IF endswith(s, c) THEN SubSeq(s, 1, Len(s) - 1) ELSE s

\* Position of the first c in s, 0 when there is none.
find(s, c) ==
    IF c \in Range(s) THEN CHOOSE i \in 1..Len(s) : s[i] = c /\ \A j \in 1..(i - 1) : s[j] # c
    ELSE 0

\* Position of the last c in s, 0 when there is none.
rfind(s, c) ==
    IF c \in Range(s) THEN CHOOSE i \in 1..Len(s) : s[i] = c /\ \A j \in (i + 1)..Len(s) : s[j] # c
    ELSE 0

\* The characters that str.upper changes (Unicode 14.0.0, the table of the
\* Python that runs pystub), and what it changes each into.  A character is
\* written as itself when it is ASCII and as "U+XXXX" otherwise; a result of
\* several characters is written as the ASCII string itself ("SS") or as the
\* names of its characters separated by spaces.
LowerCase ==
    <<
    "a", "b", "c", "d", "e", "f", "g", "h", "i", "j", "k", "l", "m", "n", "o", "p", "q", "r",
    "s", "t", "u", "v", "w", "x", "y", "z", "U+00B5", "U+00DF", "U+00E0", "U+00E1", "U+00E2",
    "U+00E3", "U+00E4", "U+00E5", "U+00E6", "U+00E7", "U+00E8", "U+00E9", "U+00EA", "U+00EB",
    "U+00EC", "U+00ED", "U+00EE", "U+00EF", "U+00F0", "U+00F1", "U+00F2", "U+00F3", "U+00F4",
    "U+00F5", "U+00F6", "U+00F8", "U+00F9", "U+00FA", "U+00FB", "U+00FC", "U+00FD", "U+00FE",
    "U+00FF", "U+0101", "U+0103", "U+0105", "U+0107", "U+0109", "U+010B", "U+010D", "U+010F",
    "U+0111", "U+0113", "U+0115", "U+0117", "U+0119", "U+011B", "U+011D", "U+011F", "U+0121",
    "U+0123", "U+0125", "U+0127", "U+0129", "U+012B", "U+012D", "U+012F", "U+0131", "U+0133",
    "U+0135", "U+0137", "U+013A", "U+013C", "U+013E", "U+0140", "U+0142", "U+0144", "U+0146",
    "U+0148", "U+0149", "U+014B", "U+014D", "U+014F", "U+0151", "U+0153", "U+0155", "U+0157",
    "U+0159", "U+015B", "U+015D", "U+015F", "U+0161", "U+0163", "U+0165", "U+0167", "U+0169",
    "U+016B", "U+016D", "U+016F", "U+0171", "U+0173", "U+0175", "U+0177", "U+017A", "U+017C",
    "U+017E", "U+017F", "U+0180", "U+0183", "U+0185", "U+0188", "U+018C", "U+0192", "U+0195",
    "U+0199", "U+019A", "U+019E", "U+01A1", "U+01A3", "U+01A5", "U+01A8", "U+01AD", "U+01B0",
    "U+01B4", "U+01B6", "U+01B9", "U+01BD", "U+01BF", "U+01C5", "U+01C6", "U+01C8", "U+01C9",
    "U+01CB", "U+01CC", "U+01CE", "U+01D0", "U+01D2", "U+01D4", "U+01D6", "U+01D8", "U+01DA",
    "U+01DC", "U+01DD", "U+01DF", "U+01E1", "U+01E3", "U+01E5", "U+01E7", "U+01E9", "U+01EB",
    "U+01ED", "U+01EF", "U+01F0", "U+01F2", "U+01F3", "U+01F5", "U+01F9", "U+01FB", "U+01FD",
    "U+01FF", "U+0201", "U+0203", "U+0205", "U+0207", "U+0209", "U+020B", "U+020D", "U+020F",
    "U+0211", "U+0213", "U+0215", "U+0217", "U+0219", "U+021B", "U+021D", "U+021F", "U+0223",
    "U+0225", "U+0227", "U+0229", "U+022B", "U+022D", "U+022F", "U+0231", "U+0233", "U+023C",
    "U+023F", "U+0240", "U+0242", "U+0247", "U+0249", "U+024B", "U+024D", "U+024F", "U+0250",
    "U+0251", "U+0252", "U+0253", "U+0254", "U+0256", "U+0257", "U+0259", "U+025B", "U+025C",
    "U+0260", "U+0261", "U+0263", "U+0265", "U+0266", "U+0268", "U+0269", "U+026A", "U+026B",
    "U+026C", "U+026F", "U+0271", "U+0272", "U+0275", "U+027D", "U+0280", "U+0282", "U+0283",
    "U+0287", "U+0288", "U+0289", "U+028A", "U+028B", "U+028C", "U+0292", "U+029D", "U+029E",
    "U+0345", "U+0371", "U+0373", "U+0377", "U+037B", "U+037C", "U+037D", "U+0390", "U+03AC",
    "U+03AD", "U+03AE", "U+03AF", "U+03B0", "U+03B1", "U+03B2", "U+03B3", "U+03B4", "U+03B5",
    "U+03B6", "U+03B7", "U+03B8", "U+03B9", "U+03BA", "U+03BB", "U+03BC", "U+03BD", "U+03BE",
    "U+03BF", "U+03C0", "U+03C1", "U+03C2", "U+03C3", "U+03C4", "U+03C5", "U+03C6", "U+03C7",
    "U+03C8", "U+03C9", "U+03CA", "U+03CB", "U+03CC", "U+03CD", "U+03CE", "U+03D0", "U+03D1",
    "U+03D5", "U+03D6", "U+03D7", "U+03D9", "U+03DB", "U+03DD", "U+03DF", "U+03E1", "U+03E3",
    "U+03E5", "U+03E7", "U+03E9", "U+03EB", "U+03ED", "U+03EF", "U+03F0", "U+03F1", "U+03F2",
    "U+03F3", "U+03F5", "U+03F8", "U+03FB", "U+0430", "U+0431", "U+0432", "U+0433", "U+0434",
    "U+0435", "U+0436", "U+0437", "U+0438", "U+0439", "U+043A", "U+043B", "U+043C", "U+043D",
    "U+043E", "U+043F", "U+0440", "U+0441", "U+0442", "U+0443", "U+0444", "U+0445", "U+0446",
    "U+0447", "U+0448", "U+0449", "U+044A", "U+044B", "U+044C", "U+044D", "U+044E", "U+044F",
    "U+0450", "U+0451", "U+0452", "U+0453", "U+0454", "U+0455", "U+0456", "U+0457", "U+0458",
    "U+0459", "U+045A", "U+045B", "U+045C", "U+045D", "U+045E", "U+045F", "U+0461", "U+0463",
    "U+0465", "U+0467", "U+0469", "U+046B", "U+046D", "U+046F", "U+0471", "U+0473", "U+0475",
    "U+0477", "U+0479", "U+047B", "U+047D", "U+047F", "U+0481", "U+048B", "U+048D", "U+048F",
    "U+0491", "U+0493", "U+0495", "U+0497", "U+0499", "U+049B", "U+049D", "U+049F", "U+04A1",
    "U+04A3", "U+04A5", "U+04A7", "U+04A9", "U+04AB", "U+04AD", "U+04AF", "U+04B1", "U+04B3",
    "U+04B5", "U+04B7", "U+04B9", "U+04BB", "U+04BD", "U+04BF", "U+04C2", "U+04C4", "U+04C6",
    "U+04C8", "U+04CA", "U+04CC", "U+04CE", "U+04CF", "U+04D1", "U+04D3", "U+04D5", "U+04D7",
    "U+04D9", "U+04DB", "U+04DD", "U+04DF", "U+04E1", "U+04E3", "U+04E5", "U+04E7", "U+04E9",
    "U+04EB", "U+04ED", "U+04EF", "U+04F1", "U+04F3", "U+04F5", "U+04F7", "U+04F9", "U+04FB",
    "U+04FD", "U+04FF", "U+0501", "U+0503", "U+0505", "U+0507", "U+0509", "U+050B", "U+050D",
    "U+050F", "U+0511", "U+0513", "U+0515", "U+0517", "U+0519", "U+051B", "U+051D", "U+051F",
    "U+0521", "U+0523", "U+0525", "U+0527", "U+0529", "U+052B", "U+052D", "U+052F", "U+0561",
    "U+0562", "U+0563", "U+0564", "U+0565", "U+0566", "U+0567", "U+0568", "U+0569", "U+056A",
    "U+056B", "U+056C", "U+056D", "U+056E", "U+056F", "U+0570", "U+0571", "U+0572", "U+0573",
    "U+0574", "U+0575", "U+0576", "U+0577", "U+0578", "U+0579", "U+057A", "U+057B", "U+057C",
    "U+057D", "U+057E", "U+057F", "U+0580", "U+0581", "U+0582", "U+0583", "U+0584", "U+0585",
    "U+0586", "U+0587", "U+10D0", "U+10D1", "U+10D2", "U+10D3", "U+10D4", "U+10D5", "U+10D6",
    "U+10D7", "U+10D8", "U+10D9", "U+10DA", "U+10DB", "U+10DC", "U+10DD", "U+10DE", "U+10DF",
    "U+10E0", "U+10E1", "U+10E2", "U+10E3", "U+10E4", "U+10E5", "U+10E6", "U+10E7", "U+10E8",
    "U+10E9", "U+10EA", "U+10EB", "U+10EC", "U+10ED", "U+10EE", "U+10EF", "U+10F0", "U+10F1",
    "U+10F2", "U+10F3", "U+10F4", "U+10F5", "U+10F6", "U+10F7", "U+10F8", "U+10F9", "U+10FA",
    "U+10FD", "U+10FE", "U+10FF", "U+13F8", "U+13F9", "U+13FA", "U+13FB", "U+13FC", "U+13FD",
    "U+1C80", "U+1C81", "U+1C82", "U+1C83", "U+1C84", "U+1C85", "U+1C86", "U+1C87", "U+1C88",
    "U+1D79", "U+1D7D", "U+1D8E", "U+1E01", "U+1E03", "U+1E05", "U+1E07", "U+1E09", "U+1E0B",
    "U+1E0D", "U+1E0F", "U+1E11", "U+1E13", "U+1E15", "U+1E17", "U+1E19", "U+1E1B", "U+1E1D",
    "U+1E1F", "U+1E21", "U+1E23", "U+1E25", "U+1E27", "U+1E29", "U+1E2B", "U+1E2D", "U+1E2F",
    "U+1E31", "U+1E33", "U+1E35", "U+1E37", "U+1E39", "U+1E3B", "U+1E3D", "U+1E3F", "U+1E41",
    "U+1E43", "U+1E45", "U+1E47", "U+1E49", "U+1E4B", "U+1E4D", "U+1E4F", "U+1E51", "U+1E53",
    "U+1E55", "U+1E57", "U+1E59", "U+1E5B", "U+1E5D", "U+1E5F", "U+1E61", "U+1E63", "U+1E65",
    "U+1E67", "U+1E69", "U+1E6B", "U+1E6D", "U+1E6F", "U+1E71", "U+1E73", "U+1E75", "U+1E77",
    "U+1E79", "U+1E7B", "U+1E7D", "U+1E7F", "U+1E81", "U+1E83", "U+1E85", "U+1E87", "U+1E89",
    "U+1E8B", "U+1E8D", "U+1E8F", "U+1E91", "U+1E93", "U+1E95", "U+1E96", "U+1E97", "U+1E98",
    "U+1E99", "U+1E9A", "U+1E9B", "U+1EA1", "U+1EA3", "U+1EA5", "U+1EA7", "U+1EA9", "U+1EAB",
    "U+1EAD", "U+1EAF", "U+1EB1", "U+1EB3", "U+1EB5", "U+1EB7", "U+1EB9", "U+1EBB", "U+1EBD",
    "U+1EBF", "U+1EC1", "U+1EC3", "U+1EC5", "U+1EC7", "U+1EC9", "U+1ECB", "U+1ECD", "U+1ECF",
    "U+1ED1", "U+1ED3", "U+1ED5", "U+1ED7", "U+1ED9", "U+1EDB", "U+1EDD", "U+1EDF", "U+1EE1",
    "U+1EE3", "U+1EE5", "U+1EE7", "U+1EE9", "U+1EEB", "U+1EED", "U+1EEF", "U+1EF1", "U+1EF3",
    "U+1EF5", "U+1EF7", "U+1EF9", "U+1EFB", "U+1EFD", "U+1EFF", "U+1F00", "U+1F01", "U+1F02",
    "U+1F03", "U+1F04", "U+1F05", "U+1F06", "U+1F07", "U+1F10", "U+1F11", "U+1F12", "U+1F13",
    "U+1F14", "U+1F15", "U+1F20", "U+1F21", "U+1F22", "U+1F23", "U+1F24", "U+1F25", "U+1F26",
    "U+1F27", "U+1F30", "U+1F31", "U+1F32", "U+1F33", "U+1F34", "U+1F35", "U+1F36", "U+1F37",
    "U+1F40", "U+1F41", "U+1F42", "U+1F43", "U+1F44", "U+1F45", "U+1F50", "U+1F51", "U+1F52",
    "U+1F53", "U+1F54", "U+1F55", "U+1F56", "U+1F57", "U+1F60", "U+1F61", "U+1F62", "U+1F63",
    "U+1F64", "U+1F65", "U+1F66", "U+1F67", "U+1F70", "U+1F71", "U+1F72", "U+1F73", "U+1F74",
    "U+1F75", "U+1F76", "U+1F77", "U+1F78", "U+1F79", "U+1F7A", "U+1F7B", "U+1F7C", "U+1F7D",
    "U+1F80", "U+1F81", "U+1F82", "U+1F83", "U+1F84", "U+1F85", "U+1F86", "U+1F87", "U+1F88",
    "U+1F89", "U+1F8A", "U+1F8B", "U+1F8C", "U+1F8D", "U+1F8E", "U+1F8F", "U+1F90", "U+1F91",
    "U+1F92", "U+1F93", "U+1F94", "U+1F95", "U+1F96", "U+1F97", "U+1F98", "U+1F99", "U+1F9A",
    "U+1F9B", "U+1F9C", "U+1F9D", "U+1F9E", "U+1F9F", "U+1FA0", "U+1FA1", "U+1FA2", "U+1FA3",
    "U+1FA4", "U+1FA5", "U+1FA6", "U+1FA7", "U+1FA8", "U+1FA9", "U+1FAA", "U+1FAB", "U+1FAC",
    "U+1FAD", "U+1FAE", "U+1FAF", "U+1FB0", "U+1FB1", "U+1FB2", "U+1FB3", "U+1FB4", "U+1FB6",
    "U+1FB7", "U+1FBC", "U+1FBE", "U+1FC2", "U+1FC3", "U+1FC4", "U+1FC6", "U+1FC7", "U+1FCC",
    "U+1FD0", "U+1FD1", "U+1FD2", "U+1FD3", "U+1FD6", "U+1FD7", "U+1FE0", "U+1FE1", "U+1FE2",
    "U+1FE3", "U+1FE4", "U+1FE5", "U+1FE6", "U+1FE7", "U+1FF2", "U+1FF3", "U+1FF4", "U+1FF6",
    "U+1FF7", "U+1FFC", "U+214E", "U+2170", "U+2171", "U+2172", "U+2173", "U+2174", "U+2175",
    "U+2176", "U+2177", "U+2178", "U+2179", "U+217A", "U+217B", "U+217C", "U+217D", "U+217E",
    "U+217F", "U+2184", "U+24D0", "U+24D1", "U+24D2", "U+24D3", "U+24D4", "U+24D5", "U+24D6",
    "U+24D7", "U+24D8", "U+24D9", "U+24DA", "U+24DB", "U+24DC", "U+24DD", "U+24DE", "U+24DF",
    "U+24E0", "U+24E1", "U+24E2", "U+24E3", "U+24E4", "U+24E5", "U+24E6", "U+24E7", "U+24E8",
    "U+24E9", "U+2C30", "U+2C31", "U+2C32", "U+2C33", "U+2C34", "U+2C35", "U+2C36", "U+2C37",
    "U+2C38", "U+2C39", "U+2C3A", "U+2C3B", "U+2C3C", "U+2C3D", "U+2C3E", "U+2C3F", "U+2C40",
    "U+2C41", "U+2C42", "U+2C43", "U+2C44", "U+2C45", "U+2C46", "U+2C47", "U+2C48", "U+2C49",
    "U+2C4A", "U+2C4B", "U+2C4C", "U+2C4D", "U+2C4E", "U+2C4F", "U+2C50", "U+2C51", "U+2C52",
    "U+2C53", "U+2C54", "U+2C55", "U+2C56", "U+2C57", "U+2C58", "U+2C59", "U+2C5A", "U+2C5B",
    "U+2C5C", "U+2C5D", "U+2C5E", "U+2C5F", "U+2C61", "U+2C65", "U+2C66", "U+2C68", "U+2C6A",
    "U+2C6C", "U+2C73", "U+2C76", "U+2C81", "U+2C83", "U+2C85", "U+2C87", "U+2C89", "U+2C8B",
    "U+2C8D", "U+2C8F", "U+2C91", "U+2C93", "U+2C95", "U+2C97", "U+2C99", "U+2C9B", "U+2C9D",
    "U+2C9F", "U+2CA1", "U+2CA3", "U+2CA5", "U+2CA7", "U+2CA9", "U+2CAB", "U+2CAD", "U+2CAF",
    "U+2CB1", "U+2CB3", "U+2CB5", "U+2CB7", "U+2CB9", "U+2CBB", "U+2CBD", "U+2CBF", "U+2CC1",
    "U+2CC3", "U+2CC5", "U+2CC7", "U+2CC9", "U+2CCB", "U+2CCD", "U+2CCF", "U+2CD1", "U+2CD3",
    "U+2CD5", "U+2CD7", "U+2CD9", "U+2CDB", "U+2CDD", "U+2CDF", "U+2CE1", "U+2CE3", "U+2CEC",
    "U+2CEE", "U+2CF3", "U+2D00", "U+2D01", "U+2D02", "U+2D03", "U+2D04", "U+2D05", "U+2D06",
    "U+2D07", "U+2D08", "U+2D09", "U+2D0A", "U+2D0B", "U+2D0C", "U+2D0D", "U+2D0E", "U+2D0F",
    "U+2D10", "U+2D11", "U+2D12", "U+2D13", "U+2D14", "U+2D15", "U+2D16", "U+2D17", "U+2D18",
    "U+2D19", "U+2D1A", "U+2D1B", "U+2D1C", "U+2D1D", "U+2D1E", "U+2D1F", "U+2D20", "U+2D21",
    "U+2D22", "U+2D23", "U+2D24", "U+2D25", "U+2D27", "U+2D2D", "U+A641", "U+A643", "U+A645",
    "U+A647", "U+A649", "U+A64B", "U+A64D", "U+A64F", "U+A651", "U+A653", "U+A655", "U+A657",
    "U+A659", "U+A65B", "U+A65D", "U+A65F", "U+A661", "U+A663", "U+A665", "U+A667", "U+A669",
    "U+A66B", "U+A66D", "U+A681", "U+A683", "U+A685", "U+A687", "U+A689", "U+A68B", "U+A68D",
    "U+A68F", "U+A691", "U+A693", "U+A695", "U+A697", "U+A699", "U+A69B", "U+A723", "U+A725",
    "U+A727", "U+A729", "U+A72B", "U+A72D", "U+A72F", "U+A733", "U+A735", "U+A737", "U+A739",
    "U+A73B", "U+A73D", "U+A73F", "U+A741", "U+A743", "U+A745", "U+A747", "U+A749", "U+A74B",
    "U+A74D", "U+A74F", "U+A751", "U+A753", "U+A755", "U+A757", "U+A759", "U+A75B", "U+A75D",
    "U+A75F", "U+A761", "U+A763", "U+A765", "U+A767", "U+A769", "U+A76B", "U+A76D", "U+A76F",
    "U+A77A", "U+A77C", "U+A77F", "U+A781", "U+A783", "U+A785", "U+A787", "U+A78C", "U+A791",
    "U+A793", "U+A794", "U+A797", "U+A799", "U+A79B", "U+A79D", "U+A79F", "U+A7A1", "U+A7A3",
    "U+A7A5", "U+A7A7", "U+A7A9", "U+A7B5", "U+A7B7", "U+A7B9", "U+A7BB", "U+A7BD", "U+A7BF",
    "U+A7C1", "U+A7C3", "U+A7C8", "U+A7CA", "U+A7D1", "U+A7D7", "U+A7D9", "U+A7F6", "U+AB53",
    "U+AB70", "U+AB71", "U+AB72", "U+AB73", "U+AB74", "U+AB75", "U+AB76", "U+AB77", "U+AB78",
    "U+AB79", "U+AB7A", "U+AB7B", "U+AB7C", "U+AB7D", "U+AB7E", "U+AB7F", "U+AB80", "U+AB81",
    "U+AB82", "U+AB83", "U+AB84", "U+AB85", "U+AB86", "U+AB87", "U+AB88", "U+AB89", "U+AB8A",
    "U+AB8B", "U+AB8C", "U+AB8D", "U+AB8E", "U+AB8F", "U+AB90", "U+AB91", "U+AB92", "U+AB93",
    "U+AB94", "U+AB95", "U+AB96", "U+AB97", "U+AB98", "U+AB99", "U+AB9A", "U+AB9B", "U+AB9C",
    "U+AB9D", "U+AB9E", "U+AB9F", "U+ABA0", "U+ABA1", "U+ABA2", "U+ABA3", "U+ABA4", "U+ABA5",
    "U+ABA6", "U+ABA7", "U+ABA8", "U+ABA9", "U+ABAA", "U+ABAB", "U+ABAC", "U+ABAD", "U+ABAE",
    "U+ABAF", "U+ABB0", "U+ABB1", "U+ABB2", "U+ABB3", "U+ABB4", "U+ABB5", "U+ABB6", "U+ABB7",
    "U+ABB8", "U+ABB9", "U+ABBA", "U+ABBB", "U+ABBC", "U+ABBD", "U+ABBE", "U+ABBF", "U+FB00",
    "U+FB01", "U+FB02", "U+FB03", "U+FB04", "U+FB05", "U+FB06", "U+FB13", "U+FB14", "U+FB15",
    "U+FB16", "U+FB17", "U+FF41", "U+FF42", "U+FF43", "U+FF44", "U+FF45", "U+FF46", "U+FF47",
    "U+FF48", "U+FF49", "U+FF4A", "U+FF4B", "U+FF4C", "U+FF4D", "U+FF4E", "U+FF4F", "U+FF50",
    "U+FF51", "U+FF52", "U+FF53", "U+FF54", "U+FF55", "U+FF56", "U+FF57", "U+FF58", "U+FF59",
    "U+FF5A", "U+10428", "U+10429", "U+1042A", "U+1042B", "U+1042C", "U+1042D", "U+1042E",
    "U+1042F", "U+10430", "U+10431", "U+10432", "U+10433", "U+10434", "U+10435", "U+10436",
    "U+10437", "U+10438", "U+10439", "U+1043A", "U+1043B", "U+1043C", "U+1043D", "U+1043E",
    "U+1043F", "U+10440", "U+10441", "U+10442", "U+10443", "U+10444", "U+10445", "U+10446",
    "U+10447", "U+10448", "U+10449", "U+1044A", "U+1044B", "U+1044C", "U+1044D", "U+1044E",
    "U+1044F", "U+104D8", "U+104D9", "U+104DA", "U+104DB", "U+104DC", "U+104DD", "U+104DE",
    "U+104DF", "U+104E0", "U+104E1", "U+104E2", "U+104E3", "U+104E4", "U+104E5", "U+104E6",
    "U+104E7", "U+104E8", "U+104E9", "U+104EA", "U+104EB", "U+104EC", "U+104ED", "U+104EE",
    "U+104EF", "U+104F0", "U+104F1", "U+104F2", "U+104F3", "U+104F4", "U+104F5", "U+104F6",
    "U+104F7", "U+104F8", "U+104F9", "U+104FA", "U+104FB", "U+10597", "U+10598", "U+10599",
    "U+1059A", "U+1059B", "U+1059C", "U+1059D", "U+1059E", "U+1059F", "U+105A0", "U+105A1",
    "U+105A3", "U+105A4", "U+105A5", "U+105A6", "U+105A7", "U+105A8", "U+105A9", "U+105AA",
    "U+105AB", "U+105AC", "U+105AD", "U+105AE", "U+105AF", "U+105B0", "U+105B1", "U+105B3",
    "U+105B4", "U+105B5", "U+105B6", "U+105B7", "U+105B8", "U+105B9", "U+105BB", "U+105BC",
    "U+10CC0", "U+10CC1", "U+10CC2", "U+10CC3", "U+10CC4", "U+10CC5", "U+10CC6", "U+10CC7",
    "U+10CC8", "U+10CC9", "U+10CCA", "U+10CCB", "U+10CCC", "U+10CCD", "U+10CCE", "U+10CCF",
    "U+10CD0", "U+10CD1", "U+10CD2", "U+10CD3", "U+10CD4", "U+10CD5", "U+10CD6", "U+10CD7",
    "U+10CD8", "U+10CD9", "U+10CDA", "U+10CDB", "U+10CDC", "U+10CDD", "U+10CDE", "U+10CDF",
    "U+10CE0", "U+10CE1", "U+10CE2", "U+10CE3", "U+10CE4", "U+10CE5", "U+10CE6", "U+10CE7",
    "U+10CE8", "U+10CE9", "U+10CEA", "U+10CEB", "U+10CEC", "U+10CED", "U+10CEE", "U+10CEF",
    "U+10CF0", "U+10CF1", "U+10CF2", "U+118C0", "U+118C1", "U+118C2", "U+118C3", "U+118C4",
    "U+118C5", "U+118C6", "U+118C7", "U+118C8", "U+118C9", "U+118CA", "U+118CB", "U+118CC",
    "U+118CD", "U+118CE", "U+118CF", "U+118D0", "U+118D1", "U+118D2", "U+118D3", "U+118D4",
    "U+118D5", "U+118D6", "U+118D7", "U+118D8", "U+118D9", "U+118DA", "U+118DB", "U+118DC",
    "U+118DD", "U+118DE", "U+118DF", "U+16E60", "U+16E61", "U+16E62", "U+16E63", "U+16E64",
    "U+16E65", "U+16E66", "U+16E67", "U+16E68", "U+16E69", "U+16E6A", "U+16E6B", "U+16E6C",
    "U+16E6D", "U+16E6E", "U+16E6F", "U+16E70", "U+16E71", "U+16E72", "U+16E73", "U+16E74",
    "U+16E75", "U+16E76", "U+16E77", "U+16E78", "U+16E79", "U+16E7A", "U+16E7B", "U+16E7C",
    "U+16E7D", "U+16E7E", "U+16E7F", "U+1E922", "U+1E923", "U+1E924", "U+1E925", "U+1E926",
    "U+1E927", "U+1E928", "U+1E929", "U+1E92A", "U+1E92B", "U+1E92C", "U+1E92D", "U+1E92E",
    "U+1E92F", "U+1E930", "U+1E931", "U+1E932", "U+1E933", "U+1E934", "U+1E935", "U+1E936",
    "U+1E937", "U+1E938", "U+1E939", "U+1E93A", "U+1E93B", "U+1E93C", "U+1E93D", "U+1E93E",
    "U+1E93F", "U+1E940", "U+1E941", "U+1E942", "U+1E943"
    >>

UpperCase ==
    <<
    "A", "B", "C", "D", "E", "F", "G", "H", "I", "J", "K", "L", "M", "N", "O", "P", "Q", "R",
    "S", "T", "U", "V", "W", "X", "Y", "Z", "U+039C", "SS", "U+00C0", "U+00C1", "U+00C2",
    "U+00C3", "U+00C4", "U+00C5", "U+00C6", "U+00C7", "U+00C8", "U+00C9", "U+00CA", "U+00CB",
    "U+00CC", "U+00CD", "U+00CE", "U+00CF", "U+00D0", "U+00D1", "U+00D2", "U+00D3", "U+00D4",
    "U+00D5", "U+00D6", "U+00D8", "U+00D9", "U+00DA", "U+00DB", "U+00DC", "U+00DD", "U+00DE",
    "U+0178", "U+0100", "U+0102", "U+0104", "U+0106", "U+0108", "U+010A", "U+010C", "U+010E",
    "U+0110", "U+0112", "U+0114", "U+0116", "U+0118", "U+011A", "U+011C", "U+011E", "U+0120",
    "U+0122", "U+0124", "U+0126", "U+0128", "U+012A", "U+012C", "U+012E", "I", "U+0132",
    "U+0134", "U+0136", "U+0139", "U+013B", "U+013D", "U+013F", "U+0141", "U+0143", "U+0145",
    "U+0147", "U+02BC N", "U+014A", "U+014C", "U+014E", "U+0150", "U+0152", "U+0154", "U+0156",
    "U+0158", "U+015A", "U+015C", "U+015E", "U+0160", "U+0162", "U+0164", "U+0166", "U+0168",
    "U+016A", "U+016C", "U+016E", "U+0170", "U+0172", "U+0174", "U+0176", "U+0179", "U+017B",
    "U+017D", "S", "U+0243", "U+0182", "U+0184", "U+0187", "U+018B", "U+0191", "U+01F6",
    "U+0198", "U+023D", "U+0220", "U+01A0", "U+01A2", "U+01A4", "U+01A7", "U+01AC", "U+01AF",
    "U+01B3", "U+01B5", "U+01B8", "U+01BC", "U+01F7", "U+01C4", "U+01C4", "U+01C7", "U+01C7",
    "U+01CA", "U+01CA", "U+01CD", "U+01CF", "U+01D1", "U+01D3", "U+01D5", "U+01D7", "U+01D9",
    "U+01DB", "U+018E", "U+01DE", "U+01E0", "U+01E2", "U+01E4", "U+01E6", "U+01E8", "U+01EA",
    "U+01EC", "U+01EE", "J U+030C", "U+01F1", "U+01F1", "U+01F4", "U+01F8", "U+01FA", "U+01FC",
    "U+01FE", "U+0200", "U+0202", "U+0204", "U+0206", "U+0208", "U+020A", "U+020C", "U+020E",
    "U+0210", "U+0212", "U+0214", "U+0216", "U+0218", "U+021A", "U+021C", "U+021E", "U+0222",
    "U+0224", "U+0226", "U+0228", "U+022A", "U+022C", "U+022E", "U+0230", "U+0232", "U+023B",
    "U+2C7E", "U+2C7F", "U+0241", "U+0246", "U+0248", "U+024A", "U+024C", "U+024E", "U+2C6F",
    "U+2C6D", "U+2C70", "U+0181", "U+0186", "U+0189", "U+018A", "U+018F", "U+0190", "U+A7AB",
    "U+0193", "U+A7AC", "U+0194", "U+A78D", "U+A7AA", "U+0197", "U+0196", "U+A7AE", "U+2C62",
    "U+A7AD", "U+019C", "U+2C6E", "U+019D", "U+019F", "U+2C64", "U+01A6", "U+A7C5", "U+01A9",
    "U+A7B1", "U+01AE", "U+0244", "U+01B1", "U+01B2", "U+0245", "U+01B7", "U+A7B2", "U+A7B0",
    "U+0399", "U+0370", "U+0372", "U+0376", "U+03FD", "U+03FE", "U+03FF",
    "U+0399 U+0308 U+0301", "U+0386", "U+0388", "U+0389", "U+038A", "U+03A5 U+0308 U+0301",
    "U+0391", "U+0392", "U+0393", "U+0394", "U+0395", "U+0396", "U+0397", "U+0398", "U+0399",
    "U+039A", "U+039B", "U+039C", "U+039D", "U+039E", "U+039F", "U+03A0", "U+03A1", "U+03A3",
    "U+03A3", "U+03A4", "U+03A5", "U+03A6", "U+03A7", "U+03A8", "U+03A9", "U+03AA", "U+03AB",
    "U+038C", "U+038E", "U+038F", "U+0392", "U+0398", "U+03A6", "U+03A0", "U+03CF", "U+03D8",
    "U+03DA", "U+03DC", "U+03DE", "U+03E0", "U+03E2", "U+03E4", "U+03E6", "U+03E8", "U+03EA",
    "U+03EC", "U+03EE", "U+039A", "U+03A1", "U+03F9", "U+037F", "U+0395", "U+03F7", "U+03FA",
    "U+0410", "U+0411", "U+0412", "U+0413", "U+0414", "U+0415", "U+0416", "U+0417", "U+0418",
    "U+0419", "U+041A", "U+041B", "U+041C", "U+041D", "U+041E", "U+041F", "U+0420", "U+0421",
    "U+0422", "U+0423", "U+0424", "U+0425", "U+0426", "U+0427", "U+0428", "U+0429", "U+042A",
    "U+042B", "U+042C", "U+042D", "U+042E", "U+042F", "U+0400", "U+0401", "U+0402", "U+0403",
    "U+0404", "U+0405", "U+0406", "U+0407", "U+0408", "U+0409", "U+040A", "U+040B", "U+040C",
    "U+040D", "U+040E", "U+040F", "U+0460", "U+0462", "U+0464", "U+0466", "U+0468", "U+046A",
    "U+046C", "U+046E", "U+0470", "U+0472", "U+0474", "U+0476", "U+0478", "U+047A", "U+047C",
    "U+047E", "U+0480", "U+048A", "U+048C", "U+048E", "U+0490", "U+0492", "U+0494", "U+0496",
    "U+0498", "U+049A", "U+049C", "U+049E", "U+04A0", "U+04A2", "U+04A4", "U+04A6", "U+04A8",
    "U+04AA", "U+04AC", "U+04AE", "U+04B0", "U+04B2", "U+04B4", "U+04B6", "U+04B8", "U+04BA",
    "U+04BC", "U+04BE", "U+04C1", "U+04C3", "U+04C5", "U+04C7", "U+04C9", "U+04CB", "U+04CD",
    "U+04C0", "U+04D0", "U+04D2", "U+04D4", "U+04D6", "U+04D8", "U+04DA", "U+04DC", "U+04DE",
    "U+04E0", "U+04E2", "U+04E4", "U+04E6", "U+04E8", "U+04EA", "U+04EC", "U+04EE", "U+04F0",
    "U+04F2", "U+04F4", "U+04F6", "U+04F8", "U+04FA", "U+04FC", "U+04FE", "U+0500", "U+0502",
    "U+0504", "U+0506", "U+0508", "U+050A", "U+050C", "U+050E", "U+0510", "U+0512", "U+0514",
    "U+0516", "U+0518", "U+051A", "U+051C", "U+051E", "U+0520", "U+0522", "U+0524", "U+0526",
    "U+0528", "U+052A", "U+052C", "U+052E", "U+0531", "U+0532", "U+0533", "U+0534", "U+0535",
    "U+0536", "U+0537", "U+0538", "U+0539", "U+053A", "U+053B", "U+053C", "U+053D", "U+053E",
    "U+053F", "U+0540", "U+0541", "U+0542", "U+0543", "U+0544", "U+0545", "U+0546", "U+0547",
    "U+0548", "U+0549", "U+054A", "U+054B", "U+054C", "U+054D", "U+054E", "U+054F", "U+0550",
    "U+0551", "U+0552", "U+0553", "U+0554", "U+0555", "U+0556", "U+0535 U+0552", "U+1C90",
    "U+1C91", "U+1C92", "U+1C93", "U+1C94", "U+1C95", "U+1C96", "U+1C97", "U+1C98", "U+1C99",
    "U+1C9A", "U+1C9B", "U+1C9C", "U+1C9D", "U+1C9E", "U+1C9F", "U+1CA0", "U+1CA1", "U+1CA2",
    "U+1CA3", "U+1CA4", "U+1CA5", "U+1CA6", "U+1CA7", "U+1CA8", "U+1CA9", "U+1CAA", "U+1CAB",
    "U+1CAC", "U+1CAD", "U+1CAE", "U+1CAF", "U+1CB0", "U+1CB1", "U+1CB2", "U+1CB3", "U+1CB4",
    "U+1CB5", "U+1CB6", "U+1CB7", "U+1CB8", "U+1CB9", "U+1CBA", "U+1CBD", "U+1CBE", "U+1CBF",
    "U+13F0", "U+13F1", "U+13F2", "U+13F3", "U+13F4", "U+13F5", "U+0412", "U+0414", "U+041E",
    "U+0421", "U+0422", "U+0422", "U+042A", "U+0462", "U+A64A", "U+A77D", "U+2C63", "U+A7C6",
    "U+1E00", "U+1E02", "U+1E04", "U+1E06", "U+1E08", "U+1E0A", "U+1E0C", "U+1E0E", "U+1E10",
    "U+1E12", "U+1E14", "U+1E16", "U+1E18", "U+1E1A", "U+1E1C", "U+1E1E", "U+1E20", "U+1E22",
    "U+1E24", "U+1E26", "U+1E28", "U+1E2A", "U+1E2C", "U+1E2E", "U+1E30", "U+1E32", "U+1E34",
    "U+1E36", "U+1E38", "U+1E3A", "U+1E3C", "U+1E3E", "U+1E40", "U+1E42", "U+1E44", "U+1E46",
    "U+1E48", "U+1E4A", "U+1E4C", "U+1E4E", "U+1E50", "U+1E52", "U+1E54", "U+1E56", "U+1E58",
    "U+1E5A", "U+1E5C", "U+1E5E", "U+1E60", "U+1E62", "U+1E64", "U+1E66", "U+1E68", "U+1E6A",
    "U+1E6C", "U+1E6E", "U+1E70", "U+1E72", "U+1E74", "U+1E76", "U+1E78", "U+1E7A", "U+1E7C",
    "U+1E7E", "U+1E80", "U+1E82", "U+1E84", "U+1E86", "U+1E88", "U+1E8A", "U+1E8C", "U+1E8E",
    "U+1E90", "U+1E92", "U+1E94", "H U+0331", "T U+0308", "W U+030A", "Y U+030A", "A U+02BE",
    "U+1E60", "U+1EA0", "U+1EA2", "U+1EA4", "U+1EA6", "U+1EA8", "U+1EAA", "U+1EAC", "U+1EAE",
    "U+1EB0", "U+1EB2", "U+1EB4", "U+1EB6", "U+1EB8", "U+1EBA", "U+1EBC", "U+1EBE", "U+1EC0",
    "U+1EC2", "U+1EC4", "U+1EC6", "U+1EC8", "U+1ECA", "U+1ECC", "U+1ECE", "U+1ED0", "U+1ED2",
    "U+1ED4", "U+1ED6", "U+1ED8", "U+1EDA", "U+1EDC", "U+1EDE", "U+1EE0", "U+1EE2", "U+1EE4",
    "U+1EE6", "U+1EE8", "U+1EEA", "U+1EEC", "U+1EEE", "U+1EF0", "U+1EF2", "U+1EF4", "U+1EF6",
    "U+1EF8", "U+1EFA", "U+1EFC", "U+1EFE", "U+1F08", "U+1F09", "U+1F0A", "U+1F0B", "U+1F0C",
    "U+1F0D", "U+1F0E", "U+1F0F", "U+1F18", "U+1F19", "U+1F1A", "U+1F1B", "U+1F1C", "U+1F1D",
    "U+1F28", "U+1F29", "U+1F2A", "U+1F2B", "U+1F2C", "U+1F2D", "U+1F2E", "U+1F2F", "U+1F38",
    "U+1F39", "U+1F3A", "U+1F3B", "U+1F3C", "U+1F3D", "U+1F3E", "U+1F3F", "U+1F48", "U+1F49",
    "U+1F4A", "U+1F4B", "U+1F4C", "U+1F4D", "U+03A5 U+0313", "U+1F59", "U+03A5 U+0313 U+0300",
    "U+1F5B", "U+03A5 U+0313 U+0301", "U+1F5D", "U+03A5 U+0313 U+0342", "U+1F5F", "U+1F68",
    "U+1F69", "U+1F6A", "U+1F6B", "U+1F6C", "U+1F6D", "U+1F6E", "U+1F6F", "U+1FBA", "U+1FBB",
    "U+1FC8", "U+1FC9", "U+1FCA", "U+1FCB", "U+1FDA", "U+1FDB", "U+1FF8", "U+1FF9", "U+1FEA",
    "U+1FEB", "U+1FFA", "U+1FFB", "U+1F08 U+0399", "U+1F09 U+0399", "U+1F0A U+0399",
    "U+1F0B U+0399", "U+1F0C U+0399", "U+1F0D U+0399", "U+1F0E U+0399", "U+1F0F U+0399",
    "U+1F08 U+0399", "U+1F09 U+0399", "U+1F0A U+0399", "U+1F0B U+0399", "U+1F0C U+0399",
    "U+1F0D U+0399", "U+1F0E U+0399", "U+1F0F U+0399", "U+1F28 U+0399", "U+1F29 U+0399",
    "U+1F2A U+0399", "U+1F2B U+0399", "U+1F2C U+0399", "U+1F2D U+0399", "U+1F2E U+0399",
    "U+1F2F U+0399", "U+1F28 U+0399", "U+1F29 U+0399", "U+1F2A U+0399", "U+1F2B U+0399",
    "U+1F2C U+0399", "U+1F2D U+0399", "U+1F2E U+0399", "U+1F2F U+0399", "U+1F68 U+0399",
    "U+1F69 U+0399", "U+1F6A U+0399", "U+1F6B U+0399", "U+1F6C U+0399", "U+1F6D U+0399",
    "U+1F6E U+0399", "U+1F6F U+0399", "U+1F68 U+0399", "U+1F69 U+0399", "U+1F6A U+0399",
    "U+1F6B U+0399", "U+1F6C U+0399", "U+1F6D U+0399", "U+1F6E U+0399", "U+1F6F U+0399",
    "U+1FB8", "U+1FB9", "U+1FBA U+0399", "U+0391 U+0399", "U+0386 U+0399", "U+0391 U+0342",
    "U+0391 U+0342 U+0399", "U+0391 U+0399", "U+0399", "U+1FCA U+0399", "U+0397 U+0399",
    "U+0389 U+0399", "U+0397 U+0342", "U+0397 U+0342 U+0399", "U+0397 U+0399", "U+1FD8",
    "U+1FD9", "U+0399 U+0308 U+0300", "U+0399 U+0308 U+0301", "U+0399 U+0342",
    "U+0399 U+0308 U+0342", "U+1FE8", "U+1FE9", "U+03A5 U+0308 U+0300", "U+03A5 U+0308 U+0301",
    "U+03A1 U+0313", "U+1FEC", "U+03A5 U+0342", "U+03A5 U+0308 U+0342", "U+1FFA U+0399",
    "U+03A9 U+0399", "U+038F U+0399", "U+03A9 U+0342", "U+03A9 U+0342 U+0399", "U+03A9 U+0399",
    "U+2132", "U+2160", "U+2161", "U+2162", "U+2163", "U+2164", "U+2165", "U+2166", "U+2167",
    "U+2168", "U+2169", "U+216A", "U+216B", "U+216C", "U+216D", "U+216E", "U+216F", "U+2183",
    "U+24B6", "U+24B7", "U+24B8", "U+24B9", "U+24BA", "U+24BB", "U+24BC", "U+24BD", "U+24BE",
    "U+24BF", "U+24C0", "U+24C1", "U+24C2", "U+24C3", "U+24C4", "U+24C5", "U+24C6", "U+24C7",
    "U+24C8", "U+24C9", "U+24CA", "U+24CB", "U+24CC", "U+24CD", "U+24CE", "U+24CF", "U+2C00",
    "U+2C01", "U+2C02", "U+2C03", "U+2C04", "U+2C05", "U+2C06", "U+2C07", "U+2C08", "U+2C09",
    "U+2C0A", "U+2C0B", "U+2C0C", "U+2C0D", "U+2C0E", "U+2C0F", "U+2C10", "U+2C11", "U+2C12",
    "U+2C13", "U+2C14", "U+2C15", "U+2C16", "U+2C17", "U+2C18", "U+2C19", "U+2C1A", "U+2C1B",
    "U+2C1C", "U+2C1D", "U+2C1E", "U+2C1F", "U+2C20", "U+2C21", "U+2C22", "U+2C23", "U+2C24",
    "U+2C25", "U+2C26", "U+2C27", "U+2C28", "U+2C29", "U+2C2A", "U+2C2B", "U+2C2C", "U+2C2D",
    "U+2C2E", "U+2C2F", "U+2C60", "U+023A", "U+023E", "U+2C67", "U+2C69", "U+2C6B", "U+2C72",
    "U+2C75", "U+2C80", "U+2C82", "U+2C84", "U+2C86", "U+2C88", "U+2C8A", "U+2C8C", "U+2C8E",
    "U+2C90", "U+2C92", "U+2C94", "U+2C96", "U+2C98", "U+2C9A", "U+2C9C", "U+2C9E", "U+2CA0",
    "U+2CA2", "U+2CA4", "U+2CA6", "U+2CA8", "U+2CAA", "U+2CAC", "U+2CAE", "U+2CB0", "U+2CB2",
    "U+2CB4", "U+2CB6", "U+2CB8", "U+2CBA", "U+2CBC", "U+2CBE", "U+2CC0", "U+2CC2", "U+2CC4",
    "U+2CC6", "U+2CC8", "U+2CCA", "U+2CCC", "U+2CCE", "U+2CD0", "U+2CD2", "U+2CD4", "U+2CD6",
    "U+2CD8", "U+2CDA", "U+2CDC", "U+2CDE", "U+2CE0", "U+2CE2", "U+2CEB", "U+2CED", "U+2CF2",
    "U+10A0", "U+10A1", "U+10A2", "U+10A3", "U+10A4", "U+10A5", "U+10A6", "U+10A7", "U+10A8",
    "U+10A9", "U+10AA", "U+10AB", "U+10AC", "U+10AD", "U+10AE", "U+10AF", "U+10B0", "U+10B1",
    "U+10B2", "U+10B3", "U+10B4", "U+10B5", "U+10B6", "U+10B7", "U+10B8", "U+10B9", "U+10BA",
    "U+10BB", "U+10BC", "U+10BD", "U+10BE", "U+10BF", "U+10C0", "U+10C1", "U+10C2", "U+10C3",
    "U+10C4", "U+10C5", "U+10C7", "U+10CD", "U+A640", "U+A642", "U+A644", "U+A646", "U+A648",
    "U+A64A", "U+A64C", "U+A64E", "U+A650", "U+A652", "U+A654", "U+A656", "U+A658", "U+A65A",
    "U+A65C", "U+A65E", "U+A660", "U+A662", "U+A664", "U+A666", "U+A668", "U+A66A", "U+A66C",
    "U+A680", "U+A682", "U+A684", "U+A686", "U+A688", "U+A68A", "U+A68C", "U+A68E", "U+A690",
    "U+A692", "U+A694", "U+A696", "U+A698", "U+A69A", "U+A722", "U+A724", "U+A726", "U+A728",
    "U+A72A", "U+A72C", "U+A72E", "U+A732", "U+A734", "U+A736", "U+A738", "U+A73A", "U+A73C",
    "U+A73E", "U+A740", "U+A742", "U+A744", "U+A746", "U+A748", "U+A74A", "U+A74C", "U+A74E",
    "U+A750", "U+A752", "U+A754", "U+A756", "U+A758", "U+A75A", "U+A75C", "U+A75E", "U+A760",
    "U+A762", "U+A764", "U+A766", "U+A768", "U+A76A", "U+A76C", "U+A76E", "U+A779", "U+A77B",
    "U+A77E", "U+A780", "U+A782", "U+A784", "U+A786", "U+A78B", "U+A790", "U+A792", "U+A7C4",
    "U+A796", "U+A798", "U+A79A", "U+A79C", "U+A79E", "U+A7A0", "U+A7A2", "U+A7A4", "U+A7A6",
    "U+A7A8", "U+A7B4", "U+A7B6", "U+A7B8", "U+A7BA", "U+A7BC", "U+A7BE", "U+A7C0", "U+A7C2",
    "U+A7C7", "U+A7C9", "U+A7D0", "U+A7D6", "U+A7D8", "U+A7F5", "U+A7B3", "U+13A0", "U+13A1",
    "U+13A2", "U+13A3", "U+13A4", "U+13A5", "U+13A6", "U+13A7", "U+13A8", "U+13A9", "U+13AA",
    "U+13AB", "U+13AC", "U+13AD", "U+13AE", "U+13AF", "U+13B0", "U+13B1", "U+13B2", "U+13B3",
    "U+13B4", "U+13B5", "U+13B6", "U+13B7", "U+13B8", "U+13B9", "U+13BA", "U+13BB", "U+13BC",
    "U+13BD", "U+13BE", "U+13BF", "U+13C0", "U+13C1", "U+13C2", "U+13C3", "U+13C4", "U+13C5",
    "U+13C6", "U+13C7", "U+13C8", "U+13C9", "U+13CA", "U+13CB", "U+13CC", "U+13CD", "U+13CE",
    "U+13CF", "U+13D0", "U+13D1", "U+13D2", "U+13D3", "U+13D4", "U+13D5", "U+13D6", "U+13D7",
    "U+13D8", "U+13D9", "U+13DA", "U+13DB", "U+13DC", "U+13DD", "U+13DE", "U+13DF", "U+13E0",
    "U+13E1", "U+13E2", "U+13E3", "U+13E4", "U+13E5", "U+13E6", "U+13E7", "U+13E8", "U+13E9",
    "U+13EA", "U+13EB", "U+13EC", "U+13ED", "U+13EE", "U+13EF", "FF", "FI", "FL", "FFI", "FFL",
    "ST", "ST", "U+0544 U+0546", "U+0544 U+0535", "U+0544 U+053B", "U+054E U+0546",
    "U+0544 U+053D", "U+FF21", "U+FF22", "U+FF23", "U+FF24", "U+FF25", "U+FF26", "U+FF27",
    "U+FF28", "U+FF29", "U+FF2A", "U+FF2B", "U+FF2C", "U+FF2D", "U+FF2E", "U+FF2F", "U+FF30",
    "U+FF31", "U+FF32", "U+FF33", "U+FF34", "U+FF35", "U+FF36", "U+FF37", "U+FF38", "U+FF39",
    "U+FF3A", "U+10400", "U+10401", "U+10402", "U+10403", "U+10404", "U+10405", "U+10406",
    "U+10407", "U+10408", "U+10409", "U+1040A", "U+1040B", "U+1040C", "U+1040D", "U+1040E",
    "U+1040F", "U+10410", "U+10411", "U+10412", "U+10413", "U+10414", "U+10415", "U+10416",
    "U+10417", "U+10418", "U+10419", "U+1041A", "U+1041B", "U+1041C", "U+1041D", "U+1041E",
    "U+1041F", "U+10420", "U+10421", "U+10422", "U+10423", "U+10424", "U+10425", "U+10426",
    "U+10427", "U+104B0", "U+104B1", "U+104B2", "U+104B3", "U+104B4", "U+104B5", "U+104B6",
    "U+104B7", "U+104B8", "U+104B9", "U+104BA", "U+104BB", "U+104BC", "U+104BD", "U+104BE",
    "U+104BF", "U+104C0", "U+104C1", "U+104C2", "U+104C3", "U+104C4", "U+104C5", "U+104C6",
    "U+104C7", "U+104C8", "U+104C9", "U+104CA", "U+104CB", "U+104CC", "U+104CD", "U+104CE",
    "U+104CF", "U+104D0", "U+104D1", "U+104D2", "U+104D3", "U+10570", "U+10571", "U+10572",
    "U+10573", "U+10574", "U+10575", "U+10576", "U+10577", "U+10578", "U+10579", "U+1057A",
    "U+1057C", "U+1057D", "U+1057E", "U+1057F", "U+10580", "U+10581", "U+10582", "U+10583",
    "U+10584", "U+10585", "U+10586", "U+10587", "U+10588", "U+10589", "U+1058A", "U+1058C",
    "U+1058D", "U+1058E", "U+1058F", "U+10590", "U+10591", "U+10592", "U+10594", "U+10595",
    "U+10C80", "U+10C81", "U+10C82", "U+10C83", "U+10C84", "U+10C85", "U+10C86", "U+10C87",
    "U+10C88", "U+10C89", "U+10C8A", "U+10C8B", "U+10C8C", "U+10C8D", "U+10C8E", "U+10C8F",
    "U+10C90", "U+10C91", "U+10C92", "U+10C93", "U+10C94", "U+10C95", "U+10C96", "U+10C97",
    "U+10C98", "U+10C99", "U+10C9A", "U+10C9B", "U+10C9C", "U+10C9D", "U+10C9E", "U+10C9F",
    "U+10CA0", "U+10CA1", "U+10CA2", "U+10CA3", "U+10CA4", "U+10CA5", "U+10CA6", "U+10CA7",
    "U+10CA8", "U+10CA9", "U+10CAA", "U+10CAB", "U+10CAC", "U+10CAD", "U+10CAE", "U+10CAF",
    "U+10CB0", "U+10CB1", "U+10CB2", "U+118A0", "U+118A1", "U+118A2", "U+118A3", "U+118A4",
    "U+118A5", "U+118A6", "U+118A7", "U+118A8", "U+118A9", "U+118AA", "U+118AB", "U+118AC",
    "U+118AD", "U+118AE", "U+118AF", "U+118B0", "U+118B1", "U+118B2", "U+118B3", "U+118B4",
    "U+118B5", "U+118B6", "U+118B7", "U+118B8", "U+118B9", "U+118BA", "U+118BB", "U+118BC",
    "U+118BD", "U+118BE", "U+118BF", "U+16E40", "U+16E41", "U+16E42", "U+16E43", "U+16E44",
    "U+16E45", "U+16E46", "U+16E47", "U+16E48", "U+16E49", "U+16E4A", "U+16E4B", "U+16E4C",
    "U+16E4D", "U+16E4E", "U+16E4F", "U+16E50", "U+16E51", "U+16E52", "U+16E53", "U+16E54",
    "U+16E55", "U+16E56", "U+16E57", "U+16E58", "U+16E59", "U+16E5A", "U+16E5B", "U+16E5C",
    "U+16E5D", "U+16E5E", "U+16E5F", "U+1E900", "U+1E901", "U+1E902", "U+1E903", "U+1E904",
    "U+1E905", "U+1E906", "U+1E907", "U+1E908", "U+1E909", "U+1E90A", "U+1E90B", "U+1E90C",
    "U+1E90D", "U+1E90E", "U+1E90F", "U+1E910", "U+1E911", "U+1E912", "U+1E913", "U+1E914",
    "U+1E915", "U+1E916", "U+1E917", "U+1E918", "U+1E919", "U+1E91A", "U+1E91B", "U+1E91C",
    "U+1E91D", "U+1E91E", "U+1E91F", "U+1E920", "U+1E921"
    >>

\* str.upper of one character: a string of one or more characters.
upper(c) ==
    IF c \in Range(LowerCase) THEN UpperCase[CHOOSE i \in 1..Len(LowerCase) : LowerCase[i] = c]
    ELSE c

(***************************************************************************)
(* Names and tags the code spells out                                      *)
(***************************************************************************)
CONFIG == <<"c","o","n","f","i","g">>
OUTPUT == <<"o","u","t","p","u","t">>
SERVER == <<"s","e","r","v","e","r">>
HOST == <<"h","o","s","t">>
PORT == <<"p","o","r","t">>
INPUTSPEC == <<"i","n","p","u","t","s","p","e","c">>
CSV == <<"c","s","v">>
JSON == <<"j","s","o","n">>
YAML == <<"y","a","m","l">>
BOOL == <<"b","o","o","l">>
INT == <<"i","n","t">>
FLOAT == <<"f","l","o","a","t">>

\* The modifier characters of the descriptor mini-language.
Modifiers == {"+", "*", ":", "%"}

(***************************************************************************)
(* The module's helper functions                                           *)
(***************************************************************************)

\* A faulty without_flags that forgets the '%' suffix.
without_flags_keep_percent(arg) ==
    IF Truthy(arg)
    THEN removesuffix(removesuffix(removesuffix(arg, "+"), "*"), ":")
    ELSE arg

\* without_flags: the four removesuffix calls in the order of the source.
without_flags(arg) ==
    IF Truthy(arg)
    THEN removesuffix(removesuffix(removesuffix(removesuffix(arg, "+"), "*"), ":"), "%")
    ELSE arg

\* arg_name: arg.split('.')[0]
arg_name(arg) ==
    IF find(arg, ".") = 0 THEN arg ELSE SubSeq(arg, 1, find(arg, ".") - 1)

\* arg_type: arg.split('.')[1] if '.' in arg else None
arg_type(arg) ==
    IF find(arg, ".") = 0 THEN None
    ELSE LET rest == SubSeq(arg, find(arg, ".") + 1, Len(arg))
         IN  IF find(rest, ".") = 0 THEN rest ELSE SubSeq(rest, 1, find(rest, ".") - 1)

\* TYPE_READERS.get(argtype, "%s_stream.read()"): the reader template chosen.
\* "csv", "json" and "yaml" read <name>_stream, "bool" passes the value through,
\* "read" is the default <name>_stream.read().
TYPE_READERS(argtype) ==
    IF argtype = CSV THEN "csv"
    ELSE IF argtype = JSON THEN "json"
    ELSE IF argtype = YAML THEN "yaml"
    ELSE IF argtype = BOOL THEN "bool"
    ELSE "read"

(***************************************************************************)
(* dict as an insertion-ordered sequence of [k, v] items                   *)
(***************************************************************************)
DictKeys(d) == [i \in 1..Len(d) |-> d[i].k]
DictValues(d) == {d[i].v : i \in 1..Len(d)}
DictHas(d, key) == \E i \in 1..Len(d) : d[i].k = key
\* d.get(key): None when the key is absent.
DictGet(d, key) ==
    IF DictHas(d, key) THEN d[CHOOSE i \in 1..Len(d) : d[i].k = key].v ELSE None
\* d[key] = val: an existing key keeps its place.
DictSet(d, key, val) ==
    IF DictHas(d, key)
    THEN [i \in 1..Len(d) |-> IF d[i].k = key THEN [k |-> key, v |-> val] ELSE d[i]]
    ELSE Append(d, [k |-> key, v |-> val])

(***************************************************************************)
(* os.path on '/'-separated paths                                          *)
(***************************************************************************)
\* os.path.basename: what follows the last '/'.
basename(path) == SubSeq(path, rfind(path, "/") + 1, Len(path))

\* os.path.dirname: what precedes the last '/', without trailing slashes
\* unless it is the root.
RECURSIVE rstrip(_, _)
rstrip(s, c) == IF endswith(s, c) THEN rstrip(SubSeq(s, 1, Len(s) - 1), c) ELSE s
dirname(path) ==
    LET head == SubSeq(path, 1, rfind(path, "/"))
    IN  IF head # <<>> /\ Range(head) # {"/"} THEN rstrip(head, "/") ELSE head

\* os.path.splitext(p)[0]: p up to its last '.', unless only dots precede it.
splitext_root(p) ==
    LET dot == rfind(p, ".")
    IN  IF dot > 0 /\ \E j \in 1..(dot - 1) : p[j] # "." THEN SubSeq(p, 1, dot - 1) ELSE p

\* os.path.join(a, b) for a relative b.
join(a, b) ==
    IF a = <<>> \/ endswith(a, "/") THEN a \o b ELSE a \o <<"/">> \o b

(***************************************************************************)
(* Inputs                                                                  *)
(***************************************************************************)
\* Descriptor tokens handed to --args.  All follow the grammar
\* name[.type][modifier] except the empty token and x*+ (two modifiers);
\* one name is the non-ASCII letter e-acute.
Tokens ==
    { <<>>,
      CONFIG,
      CONFIG \o <<".">> \o YAML \o <<"%">>,
      OUTPUT,
      <<"c", ".">> \o CSV \o <<"%">>,
      <<"h", "%">>,
      <<"s", ":">>,
      <<"b", ".">> \o BOOL \o <<":">>,
      <<"U+00E9", ".">> \o INT \o <<"%">>,
      <<"j", ".">> \o JSON \o <<"*">>,
      <<"x", "*", "+">>,
      <<"s", "r", "c">> }

\* Lists of at most n tokens.
RECURSIVE TokenLists(_)
TokenLists(n) ==
    IF n = 0 THEN {<<>>}
    ELSE LET shorter == TokenLists(n - 1)
         IN  shorter \cup {Append(l, t) : l \in {s \in shorter : Len(s) = n - 1}, t \in Tokens}

\* Values of --output.
Outputs == { <<"p", ".", "p", "y">>, <<"d", "/", "p", ".", "p", "y">> }

(***************************************************************************)
(* State of one run of pystub                                              *)
(***************************************************************************)
VARIABLES
    pc,          \* the part of pystub's body to run next
    error,       \* the exception that ended the run, "" while there is none
    argv,        \* the value of args at the call
    args_none,   \* args is None (--args was not given)
    args,        \* the list args, mutated in place by the run
    csv, json, yaml, fileinput, postgresql, logging, server,   \* the flags
    output,      \* the path of the program to write
    arg_types,   \* dict name -> type tag
    input_args,  \* names read as input
    short_args,  \* the set of short names of the CLI loop
    iarg,        \* index of the CLI loop, from 1
    has_config,  \* config-wrapper mode
    header,      \* the import lines written
    cli,         \* the parser.add_argument lines written, one record each
    core,        \* the def of the core logic function
    api,         \* the flask block
    wrapper,     \* the def <prog>_on_files or <prog>_main written at line 181
    config_main, \* the def <prog>_main written at line 228
    test_stub,   \* test/test_<prog>.py
    conf_yaml,   \* <prog>_conf.yaml
    files        \* the file system: which files and directories were touched

vars == << pc, error, argv, args_none, args, csv, json, yaml, fileinput, postgresql,
           logging, server, output, arg_types, input_args, short_args, iarg,
           has_config, header, cli, core, api, wrapper, config_main, test_stub,
           conf_yaml, files >>

flags == << fileinput, postgresql, logging, server, output, argv, args_none >>
inferred == << csv, json, yaml >>

\* bool(args): a list that is neither None nor empty.
ArgsTruthy == ~args_none /\ args # <<>>

prog_name == splitext_root(basename(output))
prog_dir == dirname(output)

NoCore == [emitted |-> FALSE, name |-> <<>>, params |-> <<>>,
           config_data |-> FALSE, conn |-> FALSE]
NoWrapper == [emitted |-> FALSE, prog |-> <<>>, suffix |-> "", params |-> <<>>,
              config_data |-> FALSE, with |-> "", opens |-> <<>>, connect |-> FALSE,
              call |-> <<>>, pass_conn |-> FALSE, pass_config |-> FALSE,
              save_output |-> FALSE]
NoConfigMain == [emitted |-> FALSE, prog |-> <<>>, server_branch |-> FALSE]
NoListing == [emitted |-> FALSE, names |-> <<>>]
NoFiles == [program |-> "absent", executable |-> FALSE, test |-> FALSE,
            conf |-> FALSE, dirs |-> {}]

Init ==
    /\ pc = "parse"
    /\ error = ""
    /\ args_none \in BOOLEAN
    /\ argv \in IF args_none THEN {<<>>} ELSE TokenLists(MaxArgs)
    /\ args = argv
    /\ csv \in BOOLEAN /\ json \in BOOLEAN /\ yaml \in BOOLEAN
    /\ fileinput \in BOOLEAN /\ postgresql \in BOOLEAN
    /\ logging \in BOOLEAN /\ server \in BOOLEAN
    /\ output \in Outputs
    /\ arg_types = <<>>
    /\ input_args = <<>>
    /\ short_args = {}
    /\ iarg = 0
    /\ has_config = FALSE
    /\ header = <<>>
    /\ cli = <<>>
    /\ core = NoCore
    /\ api = FALSE
    /\ wrapper = NoWrapper
    /\ config_main = NoConfigMain
    /\ test_stub = NoListing
    /\ conf_yaml = NoListing
    /\ files = NoFiles

\* An exception leaves pystub; a program file open in the with block is closed as it is.
Raise(e) ==
    /\ pc' = "failed"
    /\ error' = e
    /\ files' = IF files.program = "open" THEN [files EXCEPT !.program = "partial"] ELSE files

(***************************************************************************)
(* Lines 88-93: the type map and the inferred capabilities                 *)
(***************************************************************************)
\* {without_flags(arg_name(arg)): without_flags(arg_type(arg)) for arg in l}
RECURSIVE TypeMap(_)
TypeMap(l) ==
    IF l = <<>> THEN <<>>
    ELSE LET arg == l[Len(l)]
         IN  DictSet(TypeMap(SubSeq(l, 1, Len(l) - 1)),
                     without_flags(arg_name(arg)), without_flags(arg_type(arg)))

ParseDescriptors ==
    /\ pc = "parse"
    /\ input_args' = <<>>
    /\ arg_types' = TypeMap(IF ArgsTruthy THEN args ELSE <<>>)
    /\ csv' = (csv \/ CSV \in DictValues(arg_types'))
    /\ json' = (json \/ JSON \in DictValues(arg_types'))
    /\ yaml' = (yaml \/ YAML \in DictValues(arg_types'))
    /\ pc' = "inject"
    /\ UNCHANGED << error, args, flags, short_args, iarg, has_config, header, cli, core,
                    api, wrapper, config_main, test_stub, conf_yaml, files >>

(***************************************************************************)
(* Lines 94-95: the server arguments                                       *)
(***************************************************************************)
\* A faulty injection that forgets 'port'.
ServerArgs_without_port == << SERVER \o <<":">>, HOST >>

\* ['server:', 'host', 'port']
ServerArgs == << SERVER \o <<":">>, HOST, PORT >>

InjectServerArgs ==
    /\ pc = "inject"
    /\ IF server
       THEN IF args_none
            THEN /\ Raise("AttributeError")     \* None has no extend
                 /\ UNCHANGED args
            ELSE /\ args' = args \o ServerArgs
                 /\ pc' = "open"
                 /\ UNCHANGED << error, files >>
       ELSE /\ pc' = "open"
            /\ UNCHANGED << error, args, files >>
    /\ UNCHANGED << flags, inferred, arg_types, input_args, short_args, iarg, has_config,
                    header, cli, core, api, wrapper, config_main, test_stub, conf_yaml >>

(***************************************************************************)
(* Lines 96-101: the output directory and the program file                 *)
(***************************************************************************)
OpenOutput ==
    /\ pc = "open"
    /\ files' = [files EXCEPT
                   !.dirs = IF prog_dir # <<>> THEN @ \cup {prog_dir} ELSE @,
                   !.program = "open"]
    /\ pc' = "imports"
    /\ UNCHANGED << error, args, flags, inferred, arg_types, input_args, short_args, iarg,
                    has_config, header, cli, core, api, wrapper, config_main, test_stub,
                    conf_yaml >>

(***************************************************************************)
(* Lines 102-123: the import lines; fileinput appends its argument         *)
(***************************************************************************)
\* The import lines in the order written, given which of them are wanted.
Imports(want) ==
    SelectSeq(<< "argparse", "csv", "fileinput", "flask", "json", "logging",
                 "psycopg", "sys", "yaml" >>,
              LAMBDA m : m \in want)

WriteImports ==
    /\ pc = "imports"
    /\ IF fileinput /\ args_none
       THEN \* written up to "import fileinput", then None has no append
            /\ header' = Imports((IF csv THEN {"csv"} ELSE {}) \cup {"fileinput"})
            /\ Raise("AttributeError")
            /\ UNCHANGED args
       ELSE /\ header' = Imports((IF ArgsTruthy THEN {"argparse"} ELSE {})
                                 \cup (IF csv THEN {"csv"} ELSE {})
                                 \cup (IF fileinput THEN {"fileinput"} ELSE {})
                                 \cup (IF server THEN {"flask"} ELSE {})
                                 \cup (IF json THEN {"json"} ELSE {})
                                 \cup (IF logging THEN {"logging"} ELSE {})
                                 \cup (IF postgresql THEN {"psycopg"} ELSE {})
                                 \cup {"sys"}
                                 \cup (IF yaml THEN {"yaml"} ELSE {}))
            /\ args' = IF fileinput THEN Append(args, INPUTSPEC \o <<"+">>) ELSE args
            /\ pc' = "argparser"
            /\ UNCHANGED << error, files >>
    /\ UNCHANGED << flags, inferred, arg_types, input_args, short_args, iarg, has_config,
                    cli, core, api, wrapper, config_main, test_stub, conf_yaml >>

(***************************************************************************)
(* Lines 126-159: the argparser details                                    *)
(***************************************************************************)
WriteArgparserHead ==
    /\ pc = "argparser"
    /\ IF ArgsTruthy
       THEN /\ short_args' = {}
            /\ iarg' = 1
            /\ pc' = "add_argument"
       ELSE /\ pc' = "core"
            /\ UNCHANGED << short_args, iarg >>
    /\ UNCHANGED << error, args, flags, inferred, arg_types, input_args, has_config,
                    header, cli, core, api, wrapper, config_main, test_stub, conf_yaml,
                    files >>

\* Lines 134-138: the short option substituted into ', "-%s"'.
ShortOption(short, used) ==
    IF short \notin used THEN short
    ELSE IF upper(short) \notin used THEN upper(short)
    ELSE ""

\* Lines 140-154: the if/elif chain on the modifier of the name or of the type.
StripModifier(arg, argtype) ==
    IF endswith(arg, "+") \/ (Truthy(argtype) /\ endswith(argtype, "+"))
    THEN [arg |-> removesuffix(arg, "+"), action |-> "append", input |-> FALSE, bool |-> FALSE]
    ELSE IF endswith(arg, "*") \/ (Truthy(argtype) /\ endswith(argtype, "*"))
    THEN [arg |-> removesuffix(arg, "*"), action |-> "nargs", input |-> FALSE, bool |-> FALSE]
    ELSE IF endswith(arg, ":")
    THEN [arg |-> removesuffix(arg, ":"), action |-> "store_true", input |-> TRUE, bool |-> TRUE]
    ELSE IF endswith(arg, "%") \/ (Truthy(argtype) /\ endswith(argtype, "%"))
    THEN [arg |-> removesuffix(arg, "%"), action |-> "", input |-> TRUE, bool |-> FALSE]
    ELSE [arg |-> arg, action |-> "", input |-> FALSE, bool |-> FALSE]

\* One iteration of the loop of line 130.
WriteArgparserArg ==
    /\ pc = "add_argument"
    /\ LET token == args[iarg]
           argtype == arg_type(token)
           arg == arg_name(token)
       IN  IF arg = <<>>
           THEN /\ Raise("IndexError")            \* arg[0] of the empty string
                /\ UNCHANGED << args, arg_types, input_args, short_args, iarg, cli >>
           ELSE LET short == arg[1]
                    extra == ShortOption(short, short_args)
                    m == StripModifier(arg, argtype)
                IN  /\ short_args' = short_args \cup {short}
                    /\ arg_types' = IF m.bool THEN DictSet(arg_types, m.arg, BOOL)
                                    ELSE arg_types
                    /\ input_args' = IF m.input THEN Append(input_args, m.arg)
                                     ELSE input_args
                    /\ args' = [args EXCEPT ![iarg] = m.arg]
                    /\ cli' = Append(cli, [token |-> token, name |-> m.arg,
                                           short |-> extra, action |-> m.action,
                                           positional |-> (iarg = Len(args))])
                    /\ iarg' = iarg + 1
                    /\ pc' = IF iarg = Len(args) THEN "core" ELSE "add_argument"
                    /\ UNCHANGED << error, files >>
    /\ UNCHANGED << flags, inferred, has_config, header, core, api, wrapper, config_main,
                    test_stub, conf_yaml >>

(***************************************************************************)
(* Lines 162-173: the stub for the central logic                           *)
(***************************************************************************)
\* A faulty signature that filters only config from the typed names.
CoreParams_keep_output(types, arglist) ==
    SelectSeq(DictKeys(types), LAMBDA k : k # CONFIG)
    \o SelectSeq(arglist, LAMBDA arg : ~DictHas(types, arg) /\ arg # OUTPUT)

\* A faulty signature that lists the untyped arguments first.
CoreParams_appended_first(types, arglist) ==
    SelectSeq(arglist, LAMBDA arg : ~DictHas(types, arg) /\ arg # OUTPUT)
    \o SelectSeq(DictKeys(types), LAMBDA k : k \notin {CONFIG, OUTPUT})

\* Lines 166-167: the names joined into the signature of the core function.
CoreParams(types, arglist) ==
    SelectSeq(DictKeys(types), LAMBDA k : k \notin {CONFIG, OUTPUT})
    \o SelectSeq(arglist, LAMBDA arg : ~DictHas(types, arg) /\ arg # OUTPUT)

WriteCoreLogic ==
    /\ pc = "core"
    /\ IF args_none
       THEN /\ Raise("TypeError")        \* 'config' in None
            /\ UNCHANGED << has_config, core >>
       ELSE /\ has_config' = (CONFIG \in Range(args) /\ yaml)
            /\ core' = [emitted |-> TRUE, name |-> prog_name,
                        params |-> CoreParams(arg_types, args),
                        config_data |-> has_config', conn |-> postgresql]
            /\ pc' = IF server THEN "api" ELSE "wrapper"
            /\ UNCHANGED << error, files >>
    /\ UNCHANGED << args, flags, inferred, arg_types, input_args, short_args, iarg,
                    header, cli, api, wrapper, config_main, test_stub, conf_yaml >>

(***************************************************************************)
(* Lines 175-178: the flask application                                    *)
(***************************************************************************)
WriteServerApp ==
    /\ pc = "api"
    /\ api' = TRUE
    /\ pc' = "wrapper"
    /\ UNCHANGED << error, args, flags, inferred, arg_types, input_args, short_args, iarg,
                    has_config, header, cli, core, wrapper, config_main, test_stub,
                    conf_yaml, files >>

(***************************************************************************)
(* Lines 181-222: the config-handling wrapper, or 'main'                   *)
(***************************************************************************)
\* Line 184
WrapperSuffix(config_mode) == IF config_mode THEN "on_files" ELSE "main"

\* Lines 195-197: the names opened as <name>_stream.
Opens(inputs, types) ==
    LET kept == SelectSeq(inputs, LAMBDA arg :
                    DictGet(types, arg) \notin {BOOL, INT, FLOAT} /\ arg # CONFIG)
    IN  [i \in 1..Len(kept) |-> arg_name(kept[i])]

\* Lines 203-208: one keyword argument of the call per item of the type map.
CallArgs(types) ==
    LET kept == SelectSeq(types, LAMBDA item : item.k \notin {CONFIG, OUTPUT})
    IN  [i \in 1..Len(kept) |-> [name |-> kept[i].k, reader |-> TYPE_READERS(kept[i].v)]]

\* Lines 189-201: which block the call is written in.
WithBlock == IF fileinput THEN "fileinput" ELSE IF input_args # <<>> THEN "open" ELSE "none"

WriteWrapper ==
    /\ pc = "wrapper"
    /\ wrapper' =
         IF args # <<>>
         THEN [emitted |-> TRUE, prog |-> prog_name, suffix |-> WrapperSuffix(has_config),
               params |-> args, config_data |-> has_config,
               with |-> WithBlock,
               opens |-> IF WithBlock = "open" THEN Opens(input_args, arg_types) ELSE <<>>,
               connect |-> (WithBlock = "open" /\ postgresql),
               call |-> CallArgs(arg_types),
               pass_conn |-> postgresql, pass_config |-> has_config,
               save_output |-> (OUTPUT \in Range(args))]
         ELSE [NoWrapper EXCEPT !.emitted = TRUE, !.prog = prog_name,
                                !.suffix = WrapperSuffix(has_config),
                                !.config_data = has_config, !.with = "pass"]
    /\ pc' = IF has_config THEN "config_main" ELSE "boilerplate"
    /\ UNCHANGED << error, args, flags, inferred, arg_types, input_args, short_args, iarg,
                    has_config, header, cli, core, api, config_main, test_stub, conf_yaml,
                    files >>

(***************************************************************************)
(* Lines 227-237: the main function of a config-handling wrapper           *)
(***************************************************************************)
WriteConfigMain ==
    /\ pc = "config_main"
    /\ config_main' = [emitted |-> TRUE, prog |-> prog_name, server_branch |-> server]
    /\ pc' = "boilerplate"
    /\ UNCHANGED << error, args, flags, inferred, arg_types, input_args, short_args, iarg,
                    has_config, header, cli, core, api, wrapper, test_stub, conf_yaml,
                    files >>

(***************************************************************************)
(* Lines 240-245: the executable boilerplate; the file is closed and made  *)
(* executable                                                              *)
(***************************************************************************)
WriteBoilerplate ==
    /\ pc = "boilerplate"
    /\ files' = [files EXCEPT !.program = "closed", !.executable = TRUE]
    /\ pc' = "test"
    /\ UNCHANGED << error, args, flags, inferred, arg_types, input_args, short_args, iarg,
                    has_config, header, cli, core, api, wrapper, config_main, test_stub,
                    conf_yaml >>

(***************************************************************************)
(* Lines 247-254: the test stub                                            *)
(***************************************************************************)
WriteTestStub ==
    /\ pc = "test"
    /\ files' = [files EXCEPT !.dirs = @ \cup {join(prog_dir, <<"t","e","s","t">>)},
                              !.test = TRUE]
    /\ test_stub' = [emitted |-> TRUE, names |-> args]
    /\ pc' = IF has_config THEN "conf" ELSE "done"
    /\ UNCHANGED << error, args, flags, inferred, arg_types, input_args, short_args, iarg,
                    has_config, header, cli, core, api, wrapper, config_main, conf_yaml >>

(***************************************************************************)
(* Lines 256-261: the config template                                      *)
(***************************************************************************)
WriteConfTemplate ==
    /\ pc = "conf"
    /\ files' = [files EXCEPT !.conf = TRUE]
    /\ conf_yaml' = [emitted |-> TRUE,
                     names |-> SelectSeq(args, LAMBDA arg : arg # CONFIG)]
    /\ pc' = "done"
    /\ UNCHANGED << error, args, flags, inferred, arg_types, input_args, short_args, iarg,
                    has_config, header, cli, core, api, wrapper, config_main, test_stub >>

Next ==
    \/ ParseDescriptors
    \/ InjectServerArgs
    \/ OpenOutput
    \/ WriteImports
    \/ WriteArgparserHead
    \/ WriteArgparserArg
    \/ WriteCoreLogic
    \/ WriteServerApp
    \/ WriteWrapper
    \/ WriteConfigMain
    \/ WriteBoilerplate
    \/ WriteTestStub
    \/ WriteConfTemplate

Spec == Init /\ [][Next]_vars

(***************************************************************************)
(* Vocabulary of the properties                                            *)
(***************************************************************************)
Front(s) == SubSeq(s, 1, Len(s) - 1)

\* No element of s occurs twice.
Distinct(s) == \A i, j \in 1..Len(s) : s[i] = s[j] => i = j

\* s without the elements in the set drop, order kept.
Without(s, drop) == SelectSeq(s, LAMBDA x : x \notin drop)

\* The token's only modifier character is its last character.
EndsInOneModifier(t) ==
    /\ t # <<>>
    /\ t[Len(t)] \in Modifiers
    /\ \A i \in 1..(Len(t) - 1) : t[i] \notin Modifiers

\* A token of the grammar name[.type][modifier]: a non-empty name, at most
\* one '.', and no modifier character except possibly the last character.
GrammarToken(t) ==
    /\ arg_name(t) # <<>>
    /\ arg_name(t)[1] \notin Modifiers
    /\ Cardinality({i \in 1..Len(t) : t[i] = "."}) <= 1
    /\ \A i \in 1..(Len(t) - 1) : t[i] \notin Modifiers

\* The names declared by the CLI block, in the order written.
CliNames == [i \in 1..Len(cli) |-> cli[i].name]

\* The run is over: pystub returned or raised.
Ended == pc \in {"done", "failed"}

\* The conditional on config['args']['server'] of lines 233-235 was written.
ServerBranchWritten == config_main.emitted /\ config_main.server_branch

\* The finalized list is the caller's descriptors, then server, host, port,
\* then inputspec when fileinput is set.
GainedServerEntries ==
    /\ Len(args) = Len(argv) + 3 + (IF fileinput THEN 1 ELSE 0)
    /\ SubSeq(args, Len(argv) + 1, Len(argv) + 3) = << SERVER, HOST, PORT >>

(***************************************************************************)
(* C1.  Every run that does not reject a malformed descriptor ends with    *)
(* has_config equal to ('config' in the finalized list and yaml active),   *)
(* with the wrapper <prog>_on_files and a second wrapper <prog>_main when  *)
(* it is true, and with the single wrapper <prog>_main when it is false.   *)
(* Fails for a run without --args (args is None).                          *)
(***************************************************************************)
C1_ConfigWrapperMode ==
    (Ended /\ error # "IndexError") =>
        /\ has_config = (CONFIG \in Range(args) /\ yaml)
        /\ wrapper.emitted /\ wrapper.prog = prog_name
        /\ IF has_config
           THEN /\ wrapper.suffix = "on_files"
                /\ config_main.emitted /\ config_main.prog = prog_name
           ELSE /\ wrapper.suffix = "main"
                /\ ~config_main.emitted

(***************************************************************************)
(* C2 as stated.  With the server flag set, a finished run has gained      *)
(* exactly server, host, port, and the wrapper block holds the branch on   *)
(* the runtime value of server.                                            *)
(***************************************************************************)
C2_ServerBranchAlways ==
    (pc = "done" /\ server) => (GainedServerEntries /\ ServerBranchWritten)

(***************************************************************************)
(* C2 amended.  With the server flag set, a finished run has gained        *)
(* exactly server, host, port; the branch on the runtime value of server   *)
(* is written exactly when config-wrapper mode is active as well.          *)
(***************************************************************************)
C2_ServerBranchInConfigMode ==
    /\ (pc = "done" /\ server) => GainedServerEntries
    /\ pc \in {"boilerplate", "test", "conf", "done"} =>
           (ServerBranchWritten <=> (server /\ has_config))

C2_Witness ==
    /\ pc = "done" /\ server /\ has_config /\ ServerBranchWritten
    /\ Len(argv) = 2 /\ fileinput

(***************************************************************************)
(* C3.  Walking the list in order, a descriptor gets its first letter if   *)
(* no earlier descriptor was given it, else the upper-cased letter if no   *)
(* earlier descriptor was given that, else no short form; so no two        *)
(* declarations carry the same short form.  Stated here for the lists of   *)
(* grammar tokens with pairwise distinct names only, where it fails too.   *)
(***************************************************************************)
C3_ShortFormsDistinct ==
    (Distinct(CliNames) /\ \A i \in 1..Len(cli) : GrammarToken(cli[i].token)) =>
        \A j \in 1..Len(cli) :
            LET issued == {cli[i].short : i \in 1..(j - 1)} \ {""}
                first == arg_name(cli[j].token)[1]
            IN  /\ cli[j].short = IF first \notin issued THEN first
                                  ELSE IF upper(first) \notin issued THEN upper(first)
                                  ELSE ""
                /\ cli[j].short # "" => cli[j].short \notin issued

(***************************************************************************)
(* C4 as stated.  In a finished run the CLI block, the core signature, the *)
(* test stub and the config template list the finalized arguments, same    *)
(* names in the same order (the signature leaves out config and output,    *)
(* the template leaves out config).                                        *)
(***************************************************************************)
ListingsConsistent ==
    /\ CliNames = args
    /\ test_stub.names = args
    /\ conf_yaml.emitted => conf_yaml.names = Without(args, {CONFIG})
    /\ core.params = Without(args, {CONFIG, OUTPUT})

C4_ListingsConsistent == pc = "done" => ListingsConsistent

(***************************************************************************)
(* C4 amended.  The same, for the runs whose tokens follow the grammar     *)
(* name[.type][modifier] and whose finalized names are pairwise distinct.  *)
(***************************************************************************)
C4_ListingsConsistentWhenDistinct ==
    (/\ pc = "done"
     /\ Distinct(args)
     /\ \A i \in 1..Len(cli) : GrammarToken(cli[i].token)) => ListingsConsistent

C4_Witness ==
    /\ pc = "done" /\ Distinct(args)
    /\ \A i \in 1..Len(cli) : GrammarToken(cli[i].token)
    /\ conf_yaml.emitted /\ OUTPUT \in Range(args)
    /\ server /\ fileinput
    /\ Len(core.params) = 4

(***************************************************************************)
(* C5.  Neither output nor config is a parameter of the core-logic         *)
(* function, while output, when a descriptor names it, is a parameter of   *)
(* the orchestration wrapper.                                              *)
(***************************************************************************)
C5_CoreExcludesConfigOutput ==
    /\ core.emitted => (CONFIG \notin Range(core.params) /\ OUTPUT \notin Range(core.params))
    /\ (wrapper.emitted /\ \E i \in 1..Len(argv) : arg_name(argv[i]) = OUTPUT)
           => OUTPUT \in Range(wrapper.params)

C5_Witness ==
    /\ wrapper.emitted /\ core.emitted
    /\ OUTPUT \in Range(wrapper.params) /\ CONFIG \in Range(wrapper.params)
    /\ \E i \in 1..Len(argv) : arg_name(argv[i]) = OUTPUT
    /\ core.params # <<>>

(***************************************************************************)
(* C6.  With an empty token in the descriptor list the run fails, and at   *)
(* the failure neither the program file nor the test stub nor the config   *)
(* template has been created or modified.                                  *)
(***************************************************************************)
C6_NoFileBeforeFailure ==
    (<<>> \in Range(argv)) =>
        /\ pc # "done"
        /\ pc = "failed" => (files.program = "absent" /\ ~files.test /\ ~files.conf)

(***************************************************************************)
(* C7 as stated.  For a token ending in one modifier character,            *)
(* without_flags and the CLI loop both yield the token without that        *)
(* character, and stripping the stripped name again changes nothing.       *)
(***************************************************************************)
StrippingIdempotent(name) ==
    /\ without_flags(name) = name
    /\ StripModifier(name, None).arg = name

C7_StripYieldsToken ==
    \A i \in 1..Len(cli) :
        LET t == cli[i].token
        IN  EndsInOneModifier(t) =>
                /\ without_flags(t) = Front(t)
                /\ cli[i].name = Front(t)
                /\ StrippingIdempotent(without_flags(t))
                /\ StrippingIdempotent(cli[i].name)

(***************************************************************************)
(* C7 amended.  For a token ending in one modifier character,              *)
(* without_flags yields the token without that character; the CLI loop     *)
(* yields the name part of the token without that character (the type part *)
(* is dropped), which is the whole of it for an untyped token, and which   *)
(* is the name the type map files the token under; stripping either result *)
(* again changes nothing.                                                  *)
(***************************************************************************)
C7_StripYieldsName ==
    \A i \in 1..Len(cli) :
        LET t == cli[i].token
        IN  EndsInOneModifier(t) =>
                /\ without_flags(t) = Front(t)
                /\ cli[i].name = arg_name(Front(t))
                /\ "." \notin Range(t) => cli[i].name = Front(t)
                /\ i <= Len(argv) => DictHas(arg_types, cli[i].name)
                /\ StrippingIdempotent(without_flags(t))
                /\ StrippingIdempotent(cli[i].name)

C7_Witness ==
    /\ Len(cli) >= 2
    /\ EndsInOneModifier(cli[1].token) /\ "." \in Range(cli[1].token)
    /\ cli[1].name # Front(cli[1].token)
    /\ EndsInOneModifier(cli[2].token) /\ "." \notin Range(cli[2].token)
    /\ cli[2].name = Front(cli[2].token)

(***************************************************************************)
(* C8.  For a token of the grammar the CLI block recognizes the trailing   *)
(* modifier whether it follows the name or the type: + appends, * takes    *)
(* several values, : declares a boolean flag read as input, % declares a   *)
(* file input.                                                             *)
(***************************************************************************)
ActionOf(m) ==
    IF m = "+" THEN "append" ELSE IF m = "*" THEN "nargs"
    ELSE IF m = ":" THEN "store_true" ELSE ""

C8_ModifierAfterNameOrType ==
    \A i \in 1..Len(cli) :
        LET t == cli[i].token
            m == t[Len(t)]
        IN  (GrammarToken(t) /\ m \in Modifiers) =>
                /\ cli[i].action = ActionOf(m)
                /\ m = ":" => /\ cli[i].name \in Range(input_args)
                              /\ DictGet(arg_types, cli[i].name) = BOOL
                /\ m = "%" => cli[i].name \in Range(input_args)

(***************************************************************************)
(* C9.  With database mode active and descriptors present, the wrapper     *)
(* opens the connection it passes to the core-logic function, in every     *)
(* input mode.                                                             *)
(***************************************************************************)
C9_ConnOpenedByWrapper ==
    (wrapper.emitted /\ postgresql /\ wrapper.params # <<>>) =>
        /\ wrapper.connect
        /\ wrapper.pass_conn => wrapper.connect

(***************************************************************************)
(* C10.  Every <name>_stream that the call of the core-logic function      *)
(* reads was opened for that name in the wrapper's open(...) list.         *)
(***************************************************************************)
C10_StreamsOpened ==
    wrapper.emitted =>
        \A k \in 1..Len(wrapper.call) :
            wrapper.call[k].reader \in {"csv", "json", "yaml", "read"}
                => wrapper.call[k].name \in Range(wrapper.opens)
====
